---- MODULE Spec2Model ----
(***************************************************************************)
(* Peer monitoring of kopf operators (kopf/engines/peering.py): the lease  *)
(* record (Peer), the directory synchronizer (apply_peers), the            *)
(* arbitration reconciler (peers_handler) and the heartbeat loop           *)
(* (peers_keepalive).                                                      *)
(*                                                                         *)
(* Time is the wall clock datetime.utcnow() in whole seconds.  A datetime  *)
(* is its number of seconds, a timedelta its number of seconds.            *)
(***************************************************************************)
EXTENDS Integers, Sequences, FiniteSets, TLC

\* ------------------------------------------------------------------ bounds
\* The clock runs from 0 to MaxTime.
MaxTime == 3

\* ------------------------------------------------------- program constants
\* Peer.__init__: lifetime: int = 60
DefaultLifetime == 60
\* peers_keepalive: asyncio.sleep(max(1, int(lifetime - 10)))
MinSleep == 1
SleepMargin == 10
PEERING_DEFAULT_NAME == "default"

\* ------------------------------------------------------------------ values
\* Python's None (for a name, a namespace, a timezone).
NoneV == "None"
\* JSON null as a value of the status map of a patch: the tombstone.
Null == [null |-> TRUE]
\* lastseen=None given to Peer.__init__.
NoLastseen == [kind |-> "none", wall |-> 0, tz |-> NoneV]

\* The operators (processes) of the model, and the ids found in a directory.
Ops == {"A", "B"}
PeerIds == {"A", "B", "C"}
\* The operator whose reconciler and heartbeat are followed.
Self == "A"
\* The configured priority of each operator.
OwnPriority(i) == IF i = "A" THEN 5 ELSE 10

Max(a, b) == IF a >= b THEN a ELSE b
Restrict(f, S) == [x \in S |-> f[x]]

\* ------------------------------------------------------------- Lease record
\* datetime.isoformat() of a naive datetime: a string without an offset.
isoformat(t) == [kind |-> "iso", wall |-> t, tz |-> NoneV]

\* iso8601.parse_date(s).replace(tzinfo=None): the wall time of the string,
\* its offset dropped.
parse_date(s) == s.wall

\* timedelta.total_seconds() of a whole number of seconds.
total_seconds(d) == d

\* Peer.__init__; t is utcnow() at the call.  The lifetime is a whole number
\* of seconds, as int(lifetime) makes it.
Peer(id, name, namespace, priority, lastseen, lifetime, legacy, t) ==
    LET ls == IF lastseen.kind = "none" THEN t ELSE parse_date(lastseen)
        dl == ls + lifetime
    IN  [id |-> id, name |-> name, namespace |-> namespace,
         priority |-> priority, lifetime |-> lifetime, lastseen |-> ls,
         deadline |-> dl, is_dead |-> (dl <= t), legacy |-> legacy]

\* Peer.as_dict
as_dict(p) ==
    [namespace |-> p.namespace, priority |-> p.priority,
     lastseen |-> isoformat(p.lastseen), lifetime |-> total_seconds(p.lifetime)]

\* Variant of touch: lastseen is not set to utcnow().
touch_keep_lastseen(p, lt, t) ==
    LET lf == IF lt = << >> THEN p.lifetime ELSE lt[1]
    IN  [p EXCEPT !.lifetime = lf, !.deadline = p.lastseen + lf,
                  !.is_dead = (p.lastseen + lf <= t)]

\* Variant of touch: a lifetime of 0 is taken for no lifetime given.
touch_falsy(p, lt, t) ==
    LET lf == IF lt = << >> \/ lt[1] = 0 THEN p.lifetime ELSE lt[1]
    IN  [p EXCEPT !.lastseen = t, !.lifetime = lf, !.deadline = t + lf,
                  !.is_dead = (t + lf <= t)]

\* Variant of touch: the deadline is left as __init__ computed it.
touch_stale_deadline(p, lt, t) ==
    LET lf == IF lt = << >> THEN p.lifetime ELSE lt[1]
    IN  [p EXCEPT !.lastseen = t, !.lifetime = lf,
                  !.is_dead = (p.deadline <= t)]

\* Peer.touch(lifetime=...); lt is << >> for lifetime=None, which keeps the
\* lifetime, and <<n>> for lifetime=n.  t is utcnow().
touch(p, lt, t) ==
    LET lf == IF lt = << >> THEN p.lifetime ELSE lt[1]
    IN  [p EXCEPT !.lastseen = t, !.lifetime = lf, !.deadline = t + lf,
                  !.is_dead = (t + lf <= t)]

\* ---------------------------------------------------- Directory synchronizer
\* Variant of apply_peers: every peer is stored, none is removed.
apply_peers_store_all(peers) ==
    [id \in DOMAIN peers |-> as_dict(peers[id])]

\* apply_peers, lines 195-196: the status map of the patch, for the peers
\* given (by id).
apply_peers(peers) ==
    [id \in DOMAIN peers |->
        IF peers[id].is_dead THEN Null ELSE as_dict(peers[id])]

\* patching.patch_obj on the status field: a merge patch, null removes the key.
MergePatch(d, patch) ==
    LET keep == (DOMAIN d \ DOMAIN patch)
                  \cup {k \in DOMAIN patch : patch[k] # Null}
    IN  [k \in keep |-> IF k \in DOMAIN patch THEN patch[k] ELSE d[k]]

\* ------------------------------------------------------------------- state
VARIABLES
    now,          \* datetime.utcnow()
    dir,          \* the status map of the shared peering object
    ourselves,    \* per operator: its own Peer
    autoclean,    \* per operator: the auto-pruning flag
    freeze_mode,  \* per operator: the Toggle (TRUE is ON)
    hpc,          \* per operator: position of peers_handler
    event,        \* per operator: the event peers_handler was last given
    parsed_at,    \* per operator: utcnow() when that event was parsed
    gate0,        \* per operator: the Toggle when that event arrived
    peers,        \* per operator: the local `peers` of peers_handler (or the
                  \* peers a caller hands to apply_peers)
    trace,        \* per operator: what peers_handler did for that event
    outcome,      \* per operator: how peers_handler ended
    wres,         \* per operator: the result of the patch_obj call of that event
    kpc,          \* per operator: position of peers_keepalive
    dpc,          \* per operator: state of the shielded disappear() task
    wake,         \* per operator: the time asyncio.sleep() ends at
    sent,         \* per operator: the status map of the write in flight
    klog,         \* per operator: the steps of the current cycle of the loop
    kend,         \* per operator: the exception peers_keepalive ends with
    kstat,        \* per operator: counts of what peers_keepalive did
    cluster,      \* the peering CRDs and objects of the cluster
    det           \* Peer.detect of operator A: its arguments, position,
                  \* probes and result

hvars == <<hpc, event, parsed_at, gate0, peers, trace, outcome, wres>>
kvars == <<kpc, dpc, wake, sent, klog, kend, kstat>>
dvars == <<cluster, det>>
vars == <<now, dir, ourselves, autoclean, freeze_mode, hvars, kvars, dvars>>

\* ------------------------------------------------------ notification inputs
\* The serialized records a directory can hold for a peer id.
\* An operator writes its own priority; a peer of this operator has any.
EntryPriorities(i, id) == IF id = i THEN {OwnPriority(i)} ELSE {1, 5, 10}
EntryLifetimes == {1, DefaultLifetime}
Entries(i, id) ==
    [namespace : {NoneV}, priority : EntryPriorities(i, id),
     lastseen : {isoformat(0)}, lifetime : EntryLifetimes]

RECURSIVE SnapshotsOver(_, _)
SnapshotsOver(i, ids) ==
    IF ids = {} THEN {<< >>}
    ELSE LET id == CHOOSE x \in ids : TRUE
             rest == SnapshotsOver(i, ids \ {id})
         IN  rest \cup {(id :> e) @@ s : e \in Entries(i, id), s \in rest}
Snapshots(i) == SnapshotsOver(i, PeerIds)

\* The (name, namespace) of the other objects of the event stream: another
\* name, no name, a namespace.  Operator C is a peer in each of them.
OurTarget == <<PEERING_DEFAULT_NAME, NoneV>>
OtherTargets ==
    {<<"other", NoneV>>, <<NoneV, NoneV>>, <<PEERING_DEFAULT_NAME, "ns1">>}
EventOf(m, s) == [name |-> m[1], namespace |-> m[2], status |-> s]
Events(i) ==
    {EventOf(OurTarget, s) : s \in Snapshots(i)}
      \cup {EventOf(m, s) : m \in OtherTargets, s \in SnapshotsOver(i, {"C"})}

NoEvent == [name |-> NoneV, namespace |-> NoneV, status |-> << >>]

\* --------------------------------------------------- Arbitration reconciler
\* One thing peers_handler did: a patch sent, a log record, a Toggle call.
Did(op, ids, status) == [op |-> op, ids |-> ids, status |-> status]

\* Variant of IsOurs: the namespace of the object is not compared.
IsOursByName(i, ev) ==
    ~(ev.name # ourselves[i].name \/ ev.name = NoneV)

\* peers_handler, lines 223-227: is the event about our peering object?
IsOurs(i, ev) ==
    ~(\/ ev.namespace # ourselves[i].namespace
      \/ ev.name # ourselves[i].name
      \/ ev.name = NoneV)

\* Line 231, `**opinfo`: a record that is null is no mapping, and the call of
\* Peer raises a TypeError.
HasNull(ev) == \E opid \in DOMAIN ev.status : ev.status[opid] = Null

\* Variant of ParsePeers: the peers known from the event before are kept.
ParsePeersKeepKnown(ev, t) ==
    [opid \in DOMAIN ev.status \cup DOMAIN peers[Self] |->
        IF opid \in DOMAIN ev.status
        THEN Peer(opid, ev.name, ev.status[opid].namespace,
                  ev.status[opid].priority, ev.status[opid].lastseen,
                  ev.status[opid].lifetime, FALSE, t)
        ELSE peers[Self][opid]]

\* Variant of ParsePeers: the lifetime of a record is not read, each Peer has
\* the default lifetime.
ParsePeersDefaultLifetime(ev, t) ==
    [opid \in DOMAIN ev.status |->
        Peer(opid, ev.name, ev.status[opid].namespace, ev.status[opid].priority,
             ev.status[opid].lastseen, DefaultLifetime, FALSE, t)]

\* peers_handler, lines 230-231
ParsePeers(ev, t) ==
    [opid \in DOMAIN ev.status |->
        Peer(opid, ev.name, ev.status[opid].namespace, ev.status[opid].priority,
             ev.status[opid].lastseen, ev.status[opid].lifetime, FALSE, t)]

\* Variant of dead_peers: every peer of the snapshot is pruned.
dead_peers_all(P) == DOMAIN P

\* Variant of prio_peers: the priorities are compared the other way round.
prio_peers_lower(i, P) ==
    {id \in DOMAIN P : ~P[id].is_dead /\ P[id].priority < ourselves[i].priority}

\* Variant of same_peers: the own id is not left out.
same_peers_with_self(i, P) ==
    {id \in DOMAIN P : /\ ~P[id].is_dead
                       /\ P[id].priority = ourselves[i].priority}

\* peers_handler, lines 232-234 (the ids of the peers of each list)
dead_peers(P) == {id \in DOMAIN P : P[id].is_dead}
prio_peers(i, P) ==
    {id \in DOMAIN P : ~P[id].is_dead /\ P[id].priority > ourselves[i].priority}
same_peers(i, P) ==
    {id \in DOMAIN P : /\ ~P[id].is_dead
                       /\ P[id].priority = ourselves[i].priority
                       /\ P[id].id # ourselves[i].id}

\* Variant of Decision: same-priority peers are warned about, the operator
\* continues to function.
DecisionWarnOnly(i, P, g) ==
    IF prio_peers(i, P) # {}
    THEN IF ~g
         THEN <<Did("info", prio_peers(i, P), << >>), Did("turn_on", {}, << >>)>>
         ELSE << >>
    ELSE IF same_peers(i, P) # {}
    THEN <<Did("warning", same_peers(i, P), << >>)>>
    ELSE IF g
    THEN <<Did("info", {}, << >>), Did("turn_off", {}, << >>)>>
    ELSE << >>

\* Variant of Decision: the freeze is never lifted.
DecisionNoResume(i, P, g) ==
    IF prio_peers(i, P) # {}
    THEN IF ~g
         THEN <<Did("info", prio_peers(i, P), << >>), Did("turn_on", {}, << >>)>>
         ELSE << >>
    ELSE IF same_peers(i, P) # {}
    THEN <<Did("warning", same_peers(i, P), << >>),
           Did("warning", DOMAIN P, << >>),
           Did("turn_on", {}, << >>)>>
    ELSE << >>

\* Variant of Decision: turn_on is called also when the Toggle is ON already.
DecisionAlwaysTurnOn(i, P, g) ==
    IF prio_peers(i, P) # {}
    THEN <<Did("info", prio_peers(i, P), << >>), Did("turn_on", {}, << >>)>>
    ELSE IF same_peers(i, P) # {}
    THEN <<Did("warning", same_peers(i, P), << >>),
           Did("warning", DOMAIN P, << >>),
           Did("turn_on", {}, << >>)>>
    ELSE IF g
    THEN <<Did("info", {}, << >>), Did("turn_off", {}, << >>)>>
    ELSE << >>

\* Variant of Decision: the peers of the same priority are looked at first.
DecisionTiesFirst(i, P, g) ==
    IF same_peers(i, P) # {}
    THEN <<Did("warning", same_peers(i, P), << >>),
           Did("warning", DOMAIN P, << >>),
           Did("turn_on", {}, << >>)>>
    ELSE IF prio_peers(i, P) # {}
    THEN IF ~g
         THEN <<Did("info", prio_peers(i, P), << >>), Did("turn_on", {}, << >>)>>
         ELSE << >>
    ELSE IF g
    THEN <<Did("info", {}, << >>), Did("turn_off", {}, << >>)>>
    ELSE << >>

\* peers_handler, lines 240-252: what the decision does, g the Toggle's state.
Decision(i, P, g) ==
    IF prio_peers(i, P) # {}
    THEN IF ~g
         THEN <<Did("info", prio_peers(i, P), << >>), Did("turn_on", {}, << >>)>>
         ELSE << >>
    ELSE IF same_peers(i, P) # {}
    THEN <<Did("warning", same_peers(i, P), << >>),
           Did("warning", DOMAIN P, << >>),
           Did("turn_on", {}, << >>)>>
    ELSE IF g
    THEN <<Did("info", {}, << >>), Did("turn_off", {}, << >>)>>
    ELSE << >>

\* Toggle.turn_on / Toggle.turn_off, applied in the order of the calls.
RECURSIVE GateAfter(_, _)
GateAfter(g, did) ==
    IF did = << >> THEN g
    ELSE GateAfter(IF Head(did).op = "turn_on" THEN TRUE
                   ELSE IF Head(did).op = "turn_off" THEN FALSE
                   ELSE g, Tail(did))

\* Variant of Transitions: every call of the Toggle wakes its waiters.
RECURSIVE TransitionsEveryCall(_, _)
TransitionsEveryCall(g, did) ==
    IF did = << >> THEN 0
    ELSE (IF Head(did).op \in {"turn_on", "turn_off"} THEN 1 ELSE 0)
           + TransitionsEveryCall(g, Tail(did))

\* The transition events of the Toggle for the calls made, from the state g:
\* a call that leaves the state as it is wakes no waiter.
RECURSIVE Transitions(_, _)
Transitions(g, did) ==
    IF did = << >> THEN 0
    ELSE LET h == GateAfter(g, <<Head(did)>>)
         IN  (IF h # g THEN 1 ELSE 0) + Transitions(h, Tail(did))

\* peers_handler from its start to its first suspension: lines 222-238 up to
\* the patch request when dead peers are pruned, the whole handler otherwise.
\* It ends at line 227 for an event that is not ours, and with the TypeError
\* of line 231 for a snapshot with a null record.
HandlerBegin(i, ev) ==
    /\ hpc[i] = "idle"
    /\ event' = [event EXCEPT ![i] = ev]
    /\ parsed_at' = [parsed_at EXCEPT ![i] = now]
    /\ gate0' = [gate0 EXCEPT ![i] = freeze_mode[i]]
    /\ IF ~IsOurs(i, ev)
       THEN /\ peers' = [peers EXCEPT ![i] = << >>]
            /\ trace' = [trace EXCEPT ![i] = << >>]
            /\ outcome' = [outcome EXCEPT ![i] = "returned"]
            /\ wres' = [wres EXCEPT ![i] = "none"]
            /\ UNCHANGED <<hpc, freeze_mode>>
       ELSE IF HasNull(ev)
       THEN /\ peers' = [peers EXCEPT ![i] = << >>]
            /\ trace' = [trace EXCEPT ![i] = << >>]
            /\ outcome' = [outcome EXCEPT ![i] = "raised"]
            /\ wres' = [wres EXCEPT ![i] = "none"]
            /\ UNCHANGED <<hpc, freeze_mode>>
       ELSE LET P == ParsePeers(ev, now)
                patch == apply_peers(Restrict(P, dead_peers(P)))
            IN  /\ peers' = [peers EXCEPT ![i] = P]
                /\ IF autoclean[i] /\ dead_peers(P) # {}
                   THEN /\ trace' = [trace EXCEPT ![i] =
                                        <<Did("patch", DOMAIN patch, patch)>>]
                        /\ hpc' = [hpc EXCEPT ![i] = "prune"]
                        /\ outcome' = [outcome EXCEPT ![i] = "running"]
                        /\ wres' = [wres EXCEPT ![i] = "pending"]
                        /\ UNCHANGED freeze_mode
                   ELSE /\ trace' = [trace EXCEPT ![i] =
                                        Decision(i, P, freeze_mode[i])]
                        /\ freeze_mode' = [freeze_mode EXCEPT ![i] =
                              GateAfter(@, Decision(i, P, freeze_mode[i]))]
                        /\ outcome' = [outcome EXCEPT ![i] = "returned"]
                        /\ wres' = [wres EXCEPT ![i] = "none"]
                        /\ UNCHANGED hpc
    /\ UNCHANGED <<dvars, now, dir, ourselves, autoclean, kvars>>

\* The pruning write returns: the patch is applied, and peers_handler runs on
\* to its end, lines 240-252.
PruneDone(i) ==
    /\ hpc[i] = "prune"
    /\ wres' = [wres EXCEPT ![i] = "ok"]
    /\ dir' = MergePatch(dir, trace[i][1].status)
    /\ trace' = [trace EXCEPT ![i] = @ \o Decision(i, peers[i], freeze_mode[i])]
    /\ freeze_mode' = [freeze_mode EXCEPT ![i] =
                          GateAfter(@, Decision(i, peers[i], freeze_mode[i]))]
    /\ outcome' = [outcome EXCEPT ![i] = "returned"]
    /\ hpc' = [hpc EXCEPT ![i] = "idle"]
    /\ UNCHANGED <<dvars, now, ourselves, autoclean, event, parsed_at, gate0, peers,
                   kvars>>

\* Variant of PruneFailed: the error of the pruning write is caught, and
\* peers_handler runs on to its decision.
PruneFailedCaught(i) ==
    /\ hpc[i] = "prune"
    /\ wres' = [wres EXCEPT ![i] = "error"]
    /\ trace' = [trace EXCEPT ![i] = @ \o Decision(i, peers[i], freeze_mode[i])]
    /\ freeze_mode' = [freeze_mode EXCEPT ![i] =
                          GateAfter(@, Decision(i, peers[i], freeze_mode[i]))]
    /\ outcome' = [outcome EXCEPT ![i] = "returned"]
    /\ hpc' = [hpc EXCEPT ![i] = "idle"]
    /\ UNCHANGED <<dvars, now, dir, ourselves, autoclean, event, parsed_at, gate0, peers,
                   kvars>>

\* Variant of PruneFailed: the decision is taken first, and the error of the
\* pruning write ends the handler after it.
PruneFailedDecided(i) ==
    /\ hpc[i] = "prune"
    /\ wres' = [wres EXCEPT ![i] = "error"]
    /\ trace' = [trace EXCEPT ![i] = @ \o Decision(i, peers[i], freeze_mode[i])]
    /\ freeze_mode' = [freeze_mode EXCEPT ![i] =
                          GateAfter(@, Decision(i, peers[i], freeze_mode[i]))]
    /\ outcome' = [outcome EXCEPT ![i] = "raised"]
    /\ hpc' = [hpc EXCEPT ![i] = "idle"]
    /\ UNCHANGED <<dvars, now, dir, ourselves, autoclean, event, parsed_at, gate0, peers,
                   kvars>>

\* The pruning write fails: patch_obj raises, nothing catches it (line 238).
PruneFailed(i) ==
    /\ hpc[i] = "prune"
    /\ wres' = [wres EXCEPT ![i] = "error"]
    /\ outcome' = [outcome EXCEPT ![i] = "raised"]
    /\ hpc' = [hpc EXCEPT ![i] = "idle"]
    /\ UNCHANGED <<dvars, now, dir, ourselves, autoclean, freeze_mode,
                   event, parsed_at, gate0, peers, trace, kvars>>

\* apply_peers called by itself, lines 195-200, up to its suspension in
\* patch_obj: the patch is built from the peers given and sent.
ApplyPeers(i) ==
    /\ wres[i] = "none"
    /\ sent' = [sent EXCEPT ![i] = apply_peers(peers[i])]
    /\ wres' = [wres EXCEPT ![i] = "pending"]
    /\ outcome' = [outcome EXCEPT ![i] = "running"]
    /\ UNCHANGED <<dvars, now, dir, ourselves, autoclean, freeze_mode,
                   hpc, event, parsed_at, gate0, peers, trace,
                   kpc, dpc, wake, klog, kend, kstat>>

\* patch_obj returns, and so does apply_peers.
ApplyDone(i) ==
    /\ wres[i] = "pending"
    /\ dir' = MergePatch(dir, sent[i])
    /\ wres' = [wres EXCEPT ![i] = "ok"]
    /\ outcome' = [outcome EXCEPT ![i] = "returned"]
    /\ UNCHANGED <<dvars, now, ourselves, autoclean, freeze_mode,
                   hpc, event, parsed_at, gate0, peers, trace, kvars>>

\* patch_obj raises, and so does apply_peers.
ApplyFailed(i) ==
    /\ wres[i] = "pending"
    /\ wres' = [wres EXCEPT ![i] = "error"]
    /\ outcome' = [outcome EXCEPT ![i] = "raised"]
    /\ UNCHANGED <<dvars, now, dir, ourselves, autoclean, freeze_mode,
                   hpc, event, parsed_at, gate0, peers, trace, kvars>>

\* ------------------------------------------------------------ Heartbeat loop
\* One step of a cycle of peers_keepalive, and when it was taken.
Step(op, secs, status) ==
    [op |-> op, at |-> now, secs |-> secs, status |-> status]

Count(st, field, n) == [st EXCEPT ![field] = @ + n]

\* Variant of SleepSeconds: the floor of one second is missing.
SleepSecondsNoFloor(p) == total_seconds(p.lifetime) - SleepMargin

\* peers_keepalive, line 269: the seconds slept between two renewals.
SleepSeconds(p) == Max(MinSleep, total_seconds(p.lifetime) - SleepMargin)

\* Variant of KeepaliveBegin: the patch names every operator, with null for
\* the others.
KeepaliveBeginOthersNull(i) ==
    /\ kpc[i] = "start" \/ (kpc[i] = "sleep" /\ now >= wake[i])
    /\ LET me == touch(ourselves[i], << >>, now)
           patch == [id \in Ops |-> IF id = i THEN as_dict(me) ELSE Null]
       IN  /\ ourselves' = [ourselves EXCEPT ![i] = me]
           /\ sent' = [sent EXCEPT ![i] = patch]
           /\ klog' = [klog EXCEPT ![i] =
                          <<Step("touch", 0, << >>), Step("write", 0, patch)>>]
    /\ kpc' = [kpc EXCEPT ![i] = "renew"]
    /\ kstat' = [kstat EXCEPT ![i] = Count(@, "renewals", 1)]
    /\ UNCHANGED <<dvars, now, dir, autoclean, freeze_mode, hvars, dpc, wake, kend>>

\* peers_keepalive, lines 263-265, from the top of the loop (at the start, or
\* when the sleep has ended) into Peer.keepalive: touch(), and apply_peers
\* up to its suspension in patch_obj.
KeepaliveBegin(i) ==
    /\ kpc[i] = "start" \/ (kpc[i] = "sleep" /\ now >= wake[i])
    /\ LET me == touch(ourselves[i], << >>, now)
           patch == apply_peers(me.id :> me)
       IN  /\ ourselves' = [ourselves EXCEPT ![i] = me]
           /\ sent' = [sent EXCEPT ![i] = patch]
           /\ klog' = [klog EXCEPT ![i] =
                          <<Step("touch", 0, << >>), Step("write", 0, patch)>>]
    /\ kpc' = [kpc EXCEPT ![i] = "renew"]
    /\ kstat' = [kstat EXCEPT ![i] = Count(@, "renewals", 1)]
    /\ UNCHANGED <<dvars, now, dir, autoclean, freeze_mode, hvars, dpc, wake, kend>>

\* The renewal write returns, and the loop goes to sleep (line 269).
RenewDone(i) ==
    /\ kpc[i] = "renew"
    /\ dir' = MergePatch(dir, sent[i])
    /\ sent' = [sent EXCEPT ![i] = << >>]
    /\ wake' = [wake EXCEPT ![i] = now + SleepSeconds(ourselves[i])]
    /\ klog' = [klog EXCEPT ![i] =
                   Append(@, Step("sleep", SleepSeconds(ourselves[i]), << >>))]
    /\ kpc' = [kpc EXCEPT ![i] = "sleep"]
    /\ kstat' = [kstat EXCEPT ![i] = Count(@, "naps", 1)]
    /\ UNCHANGED <<dvars, now, ourselves, autoclean, freeze_mode, hvars, dpc, kend>>

\* Variant of Finally: disappear() is not shielded, the signal that ends the
\* loop ends the cleanup too.
FinallyUnshielded(i, exc) ==
    /\ kend' = [kend EXCEPT ![i] = exc]
    /\ kpc' = [kpc EXCEPT ![i] = "done"]
    /\ UNCHANGED <<ourselves, sent, klog, dpc>>

\* peers_keepalive, lines 270-272: the loop is left with the exception exc,
\* and Peer.disappear starts, shielded: touch(lifetime=0), and apply_peers up
\* to its suspension in patch_obj.
Finally(i, exc) ==
    /\ LET me == touch(ourselves[i], <<0>>, now)
           patch == apply_peers(me.id :> me)
       IN  /\ ourselves' = [ourselves EXCEPT ![i] = me]
           /\ sent' = [sent EXCEPT ![i] = patch]
           /\ klog' = [klog EXCEPT ![i] =
                          @ \o <<Step("touch", 0, << >>), Step("write", 0, patch)>>]
    /\ kend' = [kend EXCEPT ![i] = exc]
    /\ dpc' = [dpc EXCEPT ![i] = "writing"]
    /\ kpc' = [kpc EXCEPT ![i] = "cleanup"]

\* Variant of RenewFailed: the error of the renewal write is caught inside the
\* loop, which starts its next cycle.
RenewFailedRetried(i) ==
    /\ kpc[i] = "renew"
    /\ kpc' = [kpc EXCEPT ![i] = "start"]
    /\ sent' = [sent EXCEPT ![i] = << >>]
    /\ UNCHANGED <<dvars, now, dir, ourselves, autoclean, freeze_mode, hvars,
                   dpc, wake, klog, kend, kstat>>

\* The renewal write fails: the error leaves the loop.
RenewFailed(i) ==
    /\ kpc[i] = "renew"
    /\ Finally(i, "error")
    /\ kstat' = [kstat EXCEPT ![i] = Count(@, "deregs", 1)]
    /\ UNCHANGED <<dvars, now, dir, autoclean, freeze_mode, hvars, wake>>

\* Variant of Cancel: the cancellation ends the loop at once, nothing is
\* deregistered.
CancelNoDisappear(i) ==
    /\ kpc[i] \in {"renew", "sleep"}
    /\ kpc' = [kpc EXCEPT ![i] = "done"]
    /\ kend' = [kend EXCEPT ![i] = "cancelled"]
    /\ kstat' = [kstat EXCEPT ![i] = Count(@, "cancels", 1)]
    /\ UNCHANGED <<dvars, now, dir, ourselves, autoclean, freeze_mode, hvars,
                   dpc, wake, sent, klog>>

\* Variant of Cancel: the cancelled loop lifts the freeze on its way out.
CancelLiftsFreeze(i) ==
    /\ kpc[i] \in {"renew", "sleep"}
    /\ Finally(i, "cancelled")
    /\ kstat' = [kstat EXCEPT ![i] = Count(Count(@, "deregs", 1), "cancels", 1)]
    /\ \/ UNCHANGED dir
       \/ kpc[i] = "renew" /\ dir' = MergePatch(dir, sent[i])
    /\ freeze_mode' = [freeze_mode EXCEPT ![i] = FALSE]
    /\ UNCHANGED <<dvars, now, autoclean, hvars, wake>>

\* The task is cancelled while it waits for the renewal write or sleeps.  A
\* write in flight has reached the directory, or has not.
Cancel(i) ==
    /\ kpc[i] \in {"renew", "sleep"}
    /\ Finally(i, "cancelled")
    /\ kstat' = [kstat EXCEPT ![i] = Count(Count(@, "deregs", 1), "cancels", 1)]
    /\ \/ UNCHANGED dir
       \/ kpc[i] = "renew" /\ dir' = MergePatch(dir, sent[i])
    /\ UNCHANGED <<dvars, now, autoclean, freeze_mode, hvars, wake>>

\* The task is cancelled again while it waits for the shielded disappear():
\* lines 273-275, the loop ends and disappear() runs on by itself.
CancelAgain(i) ==
    /\ kpc[i] = "cleanup"
    /\ kpc' = [kpc EXCEPT ![i] = "done"]
    /\ kstat' = [kstat EXCEPT ![i] = Count(@, "cancels", 1)]
    /\ UNCHANGED <<dvars, now, dir, ourselves, autoclean, freeze_mode, hvars,
                   dpc, wake, sent, klog, kend>>

\* The write of disappear() returns; the loop, if it still waits, ends.
CleanupDone(i) ==
    /\ dpc[i] = "writing"
    /\ dir' = MergePatch(dir, sent[i])
    /\ sent' = [sent EXCEPT ![i] = << >>]
    /\ dpc' = [dpc EXCEPT ![i] = "ok"]
    /\ kpc' = [kpc EXCEPT ![i] = IF @ = "cleanup" THEN "done" ELSE @]
    /\ UNCHANGED <<dvars, now, ourselves, autoclean, freeze_mode, hvars,
                   wake, klog, kend, kstat>>

\* Variant of CleanupFailed: the error of the cleanup write is raised, the
\* loop ends with it.
CleanupFailedRaised(i) ==
    /\ dpc[i] = "writing"
    /\ sent' = [sent EXCEPT ![i] = << >>]
    /\ dpc' = [dpc EXCEPT ![i] = "error"]
    /\ kpc' = [kpc EXCEPT ![i] = IF @ = "cleanup" THEN "done" ELSE @]
    /\ kend' = [kend EXCEPT ![i] = IF kpc[i] = "cleanup" THEN "error" ELSE @]
    /\ UNCHANGED <<dvars, now, dir, ourselves, autoclean, freeze_mode, hvars,
                   wake, klog, kstat>>

\* The write of disappear() fails; the loop, if it still waits, logs the
\* error (lines 276-277) and ends.
CleanupFailed(i) ==
    /\ dpc[i] = "writing"
    /\ sent' = [sent EXCEPT ![i] = << >>]
    /\ dpc' = [dpc EXCEPT ![i] = "error"]
    /\ kpc' = [kpc EXCEPT ![i] = IF @ = "cleanup" THEN "done" ELSE @]
    /\ kstat' = [kstat EXCEPT ![i] =
                    IF kpc[i] = "cleanup" THEN Count(@, "logged", 1) ELSE @]
    /\ UNCHANGED <<dvars, now, dir, ourselves, autoclean, freeze_mode, hvars,
                   wake, klog, kend>>

\* ------------------------------------------------------------ environment
Tick ==
    /\ now < MaxTime
    /\ now' = now + 1
    /\ UNCHANGED <<dir, ourselves, autoclean, freeze_mode, hvars, kvars, dvars>>

\* The watcher hands an event of the stream to peers_handler of operator i.
Notification(i) ==
    \E ev \in Events(i) : HandlerBegin(i, ev)

\* ------------------------------------------------------- target resolution
\* Lines 53-55: the resources of the peering objects (their plural names);
\* the namespaced and the legacy resource are the same resource.
CLUSTER_PEERING_RESOURCE == "clusterkopfpeerings"
NAMESPACED_PEERING_RESOURCE == "kopfpeerings"
LEGACY_PEERING_RESOURCE == "kopfpeerings"

\* The names and namespaces of peering objects in a cluster.
ObjectNames == {PEERING_DEFAULT_NAME, "mine"}
\* The objects a cluster holds for the scope of its kopfpeerings CRD:
\* ClusterKopfPeering objects, and KopfPeering objects, which are in a
\* namespace unless their CRD is cluster-scoped (the legacy flavor).
ObjectsFor(scope) ==
    {<<CLUSTER_PEERING_RESOURCE, NoneV, n>> : n \in ObjectNames}
      \cup (IF scope = "namespaced"
            THEN {<<NAMESPACED_PEERING_RESOURCE, "ns1", n>> : n \in ObjectNames}
            ELSE IF scope = "cluster"
            THEN {<<LEGACY_PEERING_RESOURCE, NoneV, n>> : n \in ObjectNames}
            ELSE {})
Clusters ==
    UNION {{[scope |-> sc, objs |-> o] : o \in SUBSET ObjectsFor(sc)} :
              sc \in {"absent", "namespaced", "cluster"}}

\* fetching.read_obj(..., default=None): is the object there?
read_obj(resource, namespace, name) ==
    <<resource, namespace, name>> \in cluster.objs
\* fetching.read_crd(resource=LEGACY_PEERING_RESOURCE, default=None): the scope
\* of the CRD, "absent" for None.
read_crd(resource) == cluster.scope

\* The arguments of Peer.detect.
DetectArgs ==
    [standalone : BOOLEAN, name : {NoneV, "", PEERING_DEFAULT_NAME, "mine"},
     namespace : {NoneV, "ns1"}]
\* Python's truth of a name: None and the empty string are false.
Truthy(name) == name # NoneV /\ name # ""
NoLease == [id |-> NoneV]
\* One call of the fetching client.
Probe(call, resource, namespace, name, found) ==
    [call |-> call, resource |-> resource, namespace |-> namespace,
     name |-> name, found |-> found]
DetectStart(args) ==
    [args |-> args, pc |-> "start", probes |-> << >>, result |-> "none",
     lease |-> NoLease, warned |-> 0]
\* Peer.detect is not running.
NoDetect ==
    [args |-> [standalone |-> FALSE, name |-> NoneV, namespace |-> NoneV],
     pc |-> "off", probes |-> << >>, result |-> "none", lease |-> NoLease,
     warned |-> 0]

\* Lines 109 and 117: the name that is probed.
TargetName(args) ==
    IF Truthy(args.name) THEN args.name ELSE PEERING_DEFAULT_NAME

\* Lines 111, 113, 118, 120: cls(name=..., namespace=..., [legacy=True,]
\* **kwargs), the caller giving the id and the priority.
Found(d, legacy) ==
    [d EXCEPT !.pc = "done", !.result = "lease",
              !.lease = Peer(Self, TargetName(d.args), d.args.namespace,
                             OwnPriority(Self), NoLastseen, DefaultLifetime,
                             legacy, now)]

\* Variant of NotFound: a missing peering is never an error.
NotFoundWarns(d) ==
    [d EXCEPT !.pc = "done", !.result = "no_lease", !.warned = @ + 1]

\* Variant of NotFound: a missing peering is always an error.
NotFoundRaises(d) ==
    [d EXCEPT !.pc = "done", !.result = "raised"]

\* Lines 114-115 and 122-123: neither flavor was found.
NotFound(d) ==
    IF Truthy(d.args.name)
    THEN [d EXCEPT !.pc = "done", !.result = "raised"]
    ELSE [d EXCEPT !.pc = "done", !.result = "no_lease", !.warned = @ + 1]

\* Lines 106-107.
DetectStandalone ==
    /\ det.pc = "start" /\ det.args.standalone
    /\ det' = [det EXCEPT !.pc = "done", !.result = "no_lease"]
    /\ UNCHANGED <<now, dir, ourselves, autoclean, freeze_mode, hvars, kvars,
                   cluster>>

\* Variant of ProbeModern: the standalone flag is not looked at.
ProbeModernAlways ==
    /\ det.pc = "start"
    /\ LET nm == TargetName(det.args)
           ns == det.args.namespace
           resource == IF ns = NoneV THEN CLUSTER_PEERING_RESOURCE
                       ELSE NAMESPACED_PEERING_RESOURCE
           found == read_obj(resource, ns, nm)
           d == [det EXCEPT !.probes =
                    Append(@, Probe("read_obj", resource, ns, nm, found))]
       IN  det' = IF found THEN Found(d, FALSE)
                  ELSE [d EXCEPT !.pc = "legacy_crd"]
    /\ UNCHANGED <<now, dir, ourselves, autoclean, freeze_mode, hvars, kvars,
                   cluster>>

\* Lines 110 and 117, _is_peering_exist (lines 156-160).
ProbeModern ==
    /\ det.pc = "start" /\ ~det.args.standalone
    /\ LET nm == TargetName(det.args)
           ns == det.args.namespace
           resource == IF ns = NoneV THEN CLUSTER_PEERING_RESOURCE
                       ELSE NAMESPACED_PEERING_RESOURCE
           found == read_obj(resource, ns, nm)
           d == [det EXCEPT !.probes =
                    Append(@, Probe("read_obj", resource, ns, nm, found))]
       IN  det' = IF found THEN Found(d, FALSE)
                  ELSE [d EXCEPT !.pc = "legacy_crd"]
    /\ UNCHANGED <<now, dir, ourselves, autoclean, freeze_mode, hvars, kvars,
                   cluster>>

\* Lines 112 and 119, _is_peering_legacy up to its scope check (lines
\* 171-176).
ProbeLegacyCrd ==
    /\ det.pc = "legacy_crd"
    /\ LET crd == read_crd(LEGACY_PEERING_RESOURCE)
           d == [det EXCEPT !.probes =
                    Append(@, Probe("read_crd", LEGACY_PEERING_RESOURCE, NoneV,
                                    NoneV, crd # "absent"))]
       IN  det' = IF crd = "absent" \/ crd # "cluster" THEN NotFound(d)
                  ELSE [d EXCEPT !.pc = "legacy_obj"]
    /\ UNCHANGED <<now, dir, ourselves, autoclean, freeze_mode, hvars, kvars,
                   cluster>>

\* _is_peering_legacy, lines 178-179, and the branch taken on its answer.
ProbeLegacyObj ==
    /\ det.pc = "legacy_obj"
    /\ LET nm == TargetName(det.args)
           found == read_obj(LEGACY_PEERING_RESOURCE, NoneV, nm)
           d == [det EXCEPT !.probes =
                    Append(@, Probe("read_obj", LEGACY_PEERING_RESOURCE, NoneV,
                                    nm, found))]
       IN  det' = IF found THEN Found(d, TRUE) ELSE NotFound(d)
    /\ UNCHANGED <<now, dir, ourselves, autoclean, freeze_mode, hvars, kvars,
                   cluster>>

\* --------------------------------------------------------- specification
\* detect_own_id and Peer.detect have run: each operator holds its own Peer
\* of the cluster-scoped default peering; the Toggle starts OFF.
InitOurselves(lifetime) ==
    [i \in Ops |-> Peer(i, PEERING_DEFAULT_NAME, NoneV, OwnPriority(i),
                        NoLastseen, lifetime, FALSE, 0)]

NoStat == [renewals |-> 0, naps |-> 0, deregs |-> 0, cancels |-> 0, logged |-> 0]

\* primitives.Toggle(): a new Toggle is OFF.
InitToggle == [i \in Ops |-> FALSE]

\* Nothing has run yet; given is what the locals `peers` hold.
InitRest(given) ==
    /\ dir = << >>
    /\ autoclean \in {[i \in Ops |-> b] : b \in BOOLEAN}
    /\ freeze_mode = InitToggle
    /\ hpc = [i \in Ops |-> "idle"]
    /\ event = [i \in Ops |-> NoEvent]
    /\ parsed_at = [i \in Ops |-> 0]
    /\ gate0 = [i \in Ops |-> FALSE]
    /\ peers = [i \in Ops |-> given]
    /\ trace = [i \in Ops |-> << >>]
    /\ outcome = [i \in Ops |-> "none"]
    /\ wres = [i \in Ops |-> "none"]
    /\ kpc = [i \in Ops |-> "start"]
    /\ dpc = [i \in Ops |-> "none"]
    /\ wake = [i \in Ops |-> 0]
    /\ sent = [i \in Ops |-> << >>]
    /\ klog = [i \in Ops |-> << >>]
    /\ kend = [i \in Ops |-> "none"]
    /\ kstat = [i \in Ops |-> NoStat]

InitWith(lifetime, given) ==
    /\ ourselves = InitOurselves(lifetime)
    /\ InitRest(given)

\* Peer.detect has run, on a cluster with the default ClusterKopfPeering.
Detected ==
    /\ cluster = [scope |-> "absent",
                  objs |-> {<<CLUSTER_PEERING_RESOURCE, NoneV, PEERING_DEFAULT_NAME>>}]
    /\ det = NoDetect

Init == now = 0 /\ InitWith(DefaultLifetime, << >>) /\ Detected

\* The reconciler of operator A, fed with notifications.
Next ==
    \/ Tick
    \/ Notification(Self)
    \/ PruneDone(Self)
    \/ PruneFailed(Self)

Spec == Init /\ [][Next]_vars

\* The heartbeat loop of operator A, for the lifetimes it may be configured
\* with.
KeepaliveLifetimes == {1, 11, 12, 13}
InitKeepalive ==
    /\ now = 0 /\ \E lifetime \in KeepaliveLifetimes : InitWith(lifetime, << >>)
    /\ Detected

NextKeepalive ==
    \/ Tick
    \/ KeepaliveBegin(Self)
    \/ RenewDone(Self)
    \/ RenewFailed(Self)
    \/ Cancel(Self)
    \/ CancelAgain(Self)
    \/ CleanupDone(Self)
    \/ CleanupFailed(Self)

SpecKeepalive == InitKeepalive /\ [][NextKeepalive]_vars

\* The event loop runs the task of the shielded disappear() on, and its write
\* returns or fails.
SpecKeepaliveFair ==
    SpecKeepalive /\ WF_vars(CleanupDone(Self) \/ CleanupFailed(Self))

\* Peer.detect of operator A at startup, for the arguments it may be given and
\* the clusters it may run against.
InitDetect ==
    /\ now = 0 /\ InitWith(DefaultLifetime, << >>)
    /\ cluster \in Clusters
    /\ det \in {DetectStart(args) : args \in DetectArgs}

NextDetect ==
    \/ Tick
    \/ DetectStandalone
    \/ ProbeModern
    \/ ProbeLegacyCrd
    \/ ProbeLegacyObj

SpecDetect == InitDetect /\ [][NextDetect]_vars

\* The reconcilers of the operators A and B, fed with events of one peering
\* object.  B is configured with the priority of A or with a higher one; the
\* directory holds what A and B wrote of themselves (B with a lifetime of 1
\* second too, which expires), and may hold a peer C of priority 10.
PairPriorities == {OwnPriority("A"), OwnPriority("B")}
PairEntries(id) ==
    [namespace : {NoneV},
     priority : IF id \in Ops THEN {ourselves[id].priority} ELSE {10},
     lastseen : {isoformat(0)},
     lifetime : IF id = "B" THEN EntryLifetimes ELSE {DefaultLifetime}]
RECURSIVE PairSnapshotsOver(_)
PairSnapshotsOver(ids) ==
    IF ids = {} THEN {<< >>}
    ELSE LET id == CHOOSE x \in ids : TRUE
             rest == PairSnapshotsOver(ids \ {id})
         IN  rest \cup {(id :> e) @@ s : e \in PairEntries(id), s \in rest}
PairEvents == {EventOf(OurTarget, s) : s \in PairSnapshotsOver(PeerIds)}
PairNotification(i) ==
    \E ev \in PairEvents : HandlerBegin(i, ev)

InitPair ==
    /\ now = 0
    /\ \E p \in PairPriorities :
          ourselves = [InitOurselves(DefaultLifetime) EXCEPT !["B"].priority = p]
    /\ InitRest(<< >>)
    /\ Detected

NextPair ==
    \/ Tick
    \/ \E i \in Ops : PairNotification(i)
    \/ \E i \in Ops : PruneDone(i)
    \/ \E i \in Ops : PruneFailed(i)

SpecPair == InitPair /\ [][NextPair]_vars

\* The heartbeat loops of the operators A and B, renewing side by side.
InitRenewals ==
    /\ now = 0 /\ \E lifetime \in KeepaliveLifetimes : InitWith(lifetime, << >>)
    /\ Detected

NextRenewals ==
    \/ Tick
    \/ \E i \in Ops : KeepaliveBegin(i)
    \/ \E i \in Ops : RenewDone(i)

SpecRenewals == InitRenewals /\ [][NextRenewals]_vars

\* The watcher hands operator i the peering object as it is now, when it has
\* changed since the event the operator processed last.
NotifyDir(i) ==
    /\ event[i] = NoEvent \/ event[i].status # dir
    /\ HandlerBegin(i, EventOf(OurTarget, dir))

\* The pruning write fails, but not for good: within the time of the model a
\* later write goes through.
PruneFailedOnce(i) == now < MaxTime /\ PruneFailed(i)

\* Operator A with its heartbeat loop and its reconciler, and a competitor B,
\* of the same or of a higher priority, whose records live for 1 second; B
\* registers at some time and then stops; A prunes the dead record of B if it
\* is configured to.
CompetitorBegin == kstat["B"].renewals = 0 /\ KeepaliveBegin("B")
FreezeLifetime == 11
CompetitorLifetime == 1
InitFreeze ==
    /\ now = 0
    /\ \E p \in PairPriorities :
          ourselves = [i \in Ops |->
              IF i = Self
              THEN Peer(i, PEERING_DEFAULT_NAME, NoneV, OwnPriority(i),
                        NoLastseen, FreezeLifetime, FALSE, 0)
              ELSE Peer(i, PEERING_DEFAULT_NAME, NoneV, p,
                        NoLastseen, CompetitorLifetime, FALSE, 0)]
    /\ InitRest(<< >>)
    /\ Detected

NextFreeze ==
    \/ Tick
    \/ KeepaliveBegin(Self)
    \/ RenewDone(Self)
    \/ NotifyDir(Self)
    \/ PruneDone(Self)
    \/ PruneFailedOnce(Self)
    \/ CompetitorBegin
    \/ RenewDone("B")

\* Time passes, the heartbeat of A keeps running (its writes return), the
\* notifications are delivered to A, and its pruning write gets an answer.
SpecFreeze ==
    /\ InitFreeze /\ [][NextFreeze]_vars
    /\ WF_vars(Tick)
    /\ WF_vars(KeepaliveBegin(Self))
    /\ WF_vars(RenewDone(Self))
    /\ WF_vars(NotifyDir(Self))
    /\ WF_vars(PruneDone(Self) \/ PruneFailedOnce(Self))

\* The reconciler of a namespace-bound operator: A runs with the namespace
\* "ns1", its peering object is the KopfPeering "default" of that namespace.
\* The stream holds the events of that object, of the ClusterKopfPeering
\* "default" (where the cluster-wide operators register) and of the
\* KopfPeering "default" of the namespace "ns2"; C is an operator of priority
\* 10, cluster-wide or of a namespace.
NsTargets == {<<PEERING_DEFAULT_NAME, ns>> : ns \in {NoneV, "ns1", "ns2"}}
NsEntries(id) ==
    [namespace : IF id = Self THEN {"ns1"} ELSE {NoneV, "ns1", "ns2"},
     priority : IF id = Self THEN {OwnPriority(Self)} ELSE {10},
     lastseen : {isoformat(0)},
     lifetime : EntryLifetimes]
NsSnapshots ==
    {<< >>} \cup {(Self :> e) : e \in NsEntries(Self)}
      \cup {("C" :> e) : e \in NsEntries("C")}
      \cup {(Self :> e) @@ ("C" :> f) : e \in NsEntries(Self), f \in NsEntries("C")}
NsEvents == {EventOf(m, s) : m \in NsTargets, s \in NsSnapshots}
NsNotification(i) ==
    \E ev \in NsEvents : HandlerBegin(i, ev)

InitNamespaced ==
    /\ now = 0
    /\ ourselves = [InitOurselves(DefaultLifetime) EXCEPT ![Self].namespace = "ns1"]
    /\ InitRest(<< >>)
    /\ Detected

NextNamespaced ==
    \/ Tick
    \/ NsNotification(Self)
    \/ PruneDone(Self)
    \/ PruneFailed(Self)

SpecNamespaced == InitNamespaced /\ [][NextNamespaced]_vars

\* The whole operator A: target resolution first, then, with the Peer it
\* returned as their `ourselves`, the heartbeat loop and the reconciler side by
\* side; and a caller of apply_peers (with the locals of B).  Peer.detect runs
\* standalone or not, against a cluster with the default ClusterKopfPeering or
\* against one with the legacy CRD and no peering object; the events are those
\* of the peering object of A, empty or with the record of an operator C of
\* priority 10, which is alive or expires.
OperatorClusters ==
    {[scope |-> "absent",
      objs |-> {<<CLUSTER_PEERING_RESOURCE, NoneV, PEERING_DEFAULT_NAME>>}],
     [scope |-> "cluster", objs |-> {}]}
OperatorArgs ==
    [standalone : BOOLEAN, name : {NoneV}, namespace : {NoneV}]
OperatorEvents ==
    {EventOf(OurTarget, s) :
        s \in {<< >>} \cup {("C" :> e) : e \in PairEntries("B")}}
OperatorNotification(i) ==
    \E ev \in OperatorEvents : HandlerBegin(i, ev)
\* Peer.detect has returned the Peer the two tasks are started with.
Started == det.result = "lease"

InitOperator ==
    /\ now = 0
    /\ ourselves = [i \in Ops |->
          Peer(i, PEERING_DEFAULT_NAME, NoneV, OwnPriority(i), NoLastseen,
               FreezeLifetime, FALSE, 0)]
    /\ InitRest(<< >>)
    /\ cluster \in OperatorClusters
    /\ det \in {DetectStart(args) : args \in OperatorArgs}

NextOperator ==
    \/ Tick
    \/ DetectStandalone
    \/ ProbeModern
    \/ ProbeLegacyCrd
    \/ ProbeLegacyObj
    \/ Started /\ KeepaliveBegin(Self)
    \/ Started /\ RenewDone(Self)
    \/ Started /\ RenewFailed(Self)
    \/ Started /\ Cancel(Self)
    \/ Started /\ CancelAgain(Self)
    \/ Started /\ CleanupDone(Self)
    \/ Started /\ CleanupFailed(Self)
    \/ Started /\ OperatorNotification(Self)
    \/ Started /\ PruneDone(Self)
    \/ Started /\ PruneFailed(Self)
    \/ ApplyPeers("B")
    \/ ApplyDone("B")
    \/ ApplyFailed("B")

SpecOperator == InitOperator /\ [][NextOperator]_vars

\* One operator that writes its record and reads it back: the heartbeat loop
\* of A serializes the Peer of A into its peering object, cluster-wide or of
\* the namespace "ns1", and the reconciler of A parses the object whenever it
\* has changed.
RoundTripLifetimes == KeepaliveLifetimes \cup {DefaultLifetime}
NotifyOwn(i) ==
    /\ event[i] = NoEvent \/ event[i].status # dir
    /\ HandlerBegin(i, EventOf(<<ourselves[i].name, ourselves[i].namespace>>, dir))

InitRoundTrip ==
    /\ now = 0
    /\ \E lifetime \in RoundTripLifetimes, ns \in {NoneV, "ns1"} :
          ourselves = [InitOurselves(lifetime) EXCEPT ![Self].namespace = ns]
    /\ InitRest(<< >>)
    /\ Detected

NextRoundTrip ==
    \/ Tick
    \/ KeepaliveBegin(Self)
    \/ RenewDone(Self)
    \/ Cancel(Self)
    \/ CleanupDone(Self)
    \/ NotifyOwn(Self)
    \/ PruneDone(Self)
    \/ PruneFailed(Self)

SpecRoundTrip == InitRoundTrip /\ [][NextRoundTrip]_vars

\* The reconciler of A fed with events of its peering object whose status
\* maps the ids B and C to a record or to null.
TombEntries(id) == Entries(Self, id) \cup {Null}
TombSnapshots ==
    UNION {[ids -> UNION {TombEntries(id) : id \in ids}] :
              ids \in SUBSET {"B", "C"}}
TombEvents == {EventOf(OurTarget, s) : s \in TombSnapshots}
TombNotification(i) ==
    \E ev \in TombEvents : HandlerBegin(i, ev)

InitTombstones ==
    /\ now = 0 /\ InitWith(DefaultLifetime, << >>)
    /\ Detected

NextTombstones ==
    \/ Tick
    \/ TombNotification(Self)
    \/ PruneDone(Self)
    \/ PruneFailed(Self)

SpecTombstones == InitTombstones /\ [][NextTombstones]_vars

\* The reconciler of A, which is handed the peering object as it is, and the
\* heartbeat loop of a peer B whose records live for 1 or 2 seconds, so that
\* they expire within the time of the model when a renewal is late.
RaceLifetimes == {1, 2}
InitRace ==
    /\ now = 0
    /\ \E lifetime \in RaceLifetimes :
          ourselves = [i \in Ops |->
              Peer(i, PEERING_DEFAULT_NAME, NoneV, OwnPriority(i), NoLastseen,
                   IF i = Self THEN DefaultLifetime ELSE lifetime, FALSE, 0)]
    /\ InitRest(<< >>)
    /\ Detected

NextRace ==
    \/ Tick
    \/ KeepaliveBegin("B")
    \/ RenewDone("B")
    \/ NotifyDir(Self)
    \/ PruneDone(Self)
    \/ PruneFailed(Self)

SpecRace == InitRace /\ [][NextRace]_vars

\* apply_peers by itself: a caller has built, at some time, the peers of a
\* snapshot, and hands them to apply_peers.
InitApply ==
    /\ now \in 0..MaxTime
    /\ \E s \in Snapshots(Self) :
          InitWith(DefaultLifetime, ParsePeers(EventOf(OurTarget, s), now))
    /\ Detected

NextApply ==
    \/ ApplyPeers(Self)
    \/ ApplyDone(Self)
    \/ ApplyFailed(Self)

SpecApply == InitApply /\ [][NextApply]_vars

\* ==================================================================
\* Properties of the reconciler of operator A, stated on the event it was
\* last given, and on the records of that event's snapshot as they are when
\* the event is parsed.
LastStatus == event[Self].status

\* The last event is about the peering object of Self.
Matching ==
    /\ outcome[Self] # "none"
    /\ event[Self].name = ourselves[Self].name
    /\ event[Self].namespace = ourselves[Self].namespace
    /\ event[Self].name # NoneV
NotMatching == outcome[Self] # "none" /\ ~Matching

\* peers_handler has run to its end on the last event, without an error.
Processed == Matching /\ outcome[Self] = "returned"

RecordAlive(rec, t) == t < rec.lastseen.wall + rec.lifetime
DeadIds == {id \in DOMAIN LastStatus : ~RecordAlive(LastStatus[id], parsed_at[Self])}
HigherAliveIds ==
    {id \in DOMAIN LastStatus :
        /\ RecordAlive(LastStatus[id], parsed_at[Self])
        /\ LastStatus[id].priority > ourselves[Self].priority}
SameAliveIds ==
    {id \in DOMAIN LastStatus :
        /\ RecordAlive(LastStatus[id], parsed_at[Self])
        /\ LastStatus[id].priority = ourselves[Self].priority
        /\ id # ourselves[Self].id}

\* The positions of the trace of Self where op was done.
Calls(op) == {k \in 1..Len(trace[Self]) : trace[Self][k].op = op}
GateCalls == Calls("turn_on") \cup Calls("turn_off")

\* C1: after peers_handler has processed, without a write failure, an event
\* of its own object whose snapshot holds an alive record of a priority above
\* its own, the freeze gate is ON, whatever it was before; if it was ON
\* already, no turn_on was issued.
C1_HigherAliveFreezes ==
    (Processed /\ HigherAliveIds # {}) =>
        /\ freeze_mode[Self] = TRUE
        /\ gate0[Self] => GateCalls = {}
        /\ ~gate0[Self] => (Cardinality(Calls("turn_on")) = 1 /\ Calls("turn_off") = {})

\* A higher-priority alive peer was seen while the gate was OFF, a dead peer
\* was pruned first, and the gate is ON now.
C1_Witness ==
    /\ Processed /\ HigherAliveIds # {} /\ DeadIds # {}
    /\ wres[Self] = "ok"
    /\ ~gate0[Self] /\ freeze_mode[Self]

\* The gate was ON already when a higher-priority alive peer was seen.
C1_WitnessAlreadyOn ==
    Processed /\ HigherAliveIds # {} /\ gate0[Self] /\ freeze_mode[Self]

C3_NoCompetitorResumes ==
    (Processed /\ HigherAliveIds = {} /\ SameAliveIds = {}) =>
        /\ freeze_mode[Self] = FALSE
        /\ gate0[Self] => (Cardinality(Calls("turn_off")) = 1 /\ Calls("turn_on") = {})
        /\ ~gate0[Self] => GateCalls = {}

\* The gate was ON, and the snapshot holds the record of Self and a dead
\* record of a higher priority: the gate was turned OFF.
C3_Witness ==
    /\ Processed /\ HigherAliveIds = {} /\ SameAliveIds = {}
    /\ Self \in DOMAIN LastStatus /\ Self \notin DeadIds
    /\ \E id \in DeadIds : LastStatus[id].priority > ourselves[Self].priority
    /\ gate0[Self] /\ ~freeze_mode[Self]

\* The event just processed holds an alive same-priority peer and no alive
\* higher-priority one.
SameAliveOnly == Processed /\ HigherAliveIds = {} /\ SameAliveIds # {}
\* What peers_handler did for the event.
Done == trace[Self]

\* C22: turning the gate ON twice in succession yields one transition event:
\* the waiters of the gate are woken only when it changes from OFF to ON or
\* from ON to OFF, also when peers_handler processes two successive snapshots
\* that both hold an alive same-priority peer and calls turn_on for each.
C22_OneTransition ==
    /\ [](Processed =>
            Transitions(gate0[Self], Done)
                = (IF freeze_mode[Self] # gate0[Self] THEN 1 ELSE 0))
    /\ []((SameAliveOnly /\ gate0[Self]) =>
            /\ Cardinality(Calls("turn_on")) = 1
            /\ Transitions(gate0[Self], Done) = 0
            /\ freeze_mode[Self])
    /\ [][(SameAliveOnly /\ SameAliveOnly' /\ hpc[Self] = "idle"
             /\ <<event[Self], parsed_at[Self], gate0[Self]>>
                  # <<event'[Self], parsed_at'[Self], gate0'[Self]>>) =>
             /\ gate0'[Self] /\ freeze_mode'[Self]
             /\ Transitions(gate0[Self], Done) + Transitions(gate0'[Self], Done')
                  = (IF gate0[Self] THEN 0 ELSE 1)]_vars

\* The gate was ON already when a snapshot with an alive same-priority peer
\* was processed: turn_on was called again, no waiter was woken.
C22_Witness ==
    /\ SameAliveOnly /\ gate0[Self] /\ freeze_mode[Self]
    /\ Calls("turn_on") # {} /\ Transitions(gate0[Self], Done) = 0

\* C4: an operator that sees an alive operator of its own priority warns
\* about it and continues to function: its freeze gate is not turned ON.
C4_SameAliveContinues ==
    (Processed /\ HigherAliveIds = {} /\ SameAliveIds # {} /\ ~gate0[Self]) =>
        /\ Calls("warning") # {}
        /\ freeze_mode[Self] = FALSE

C6_Stateless ==
    Processed =>
        /\ DOMAIN peers[Self] = DOMAIN LastStatus
        /\ dead_peers(peers[Self]) = DeadIds
        /\ prio_peers(Self, peers[Self]) = HigherAliveIds
        /\ same_peers(Self, peers[Self]) = SameAliveIds
        /\ freeze_mode[Self] = (HigherAliveIds # {} \/ SameAliveIds # {})

\* The gate is OFF after an event with an empty snapshot, although the gate
\* was ON before it: an earlier event held a competitor.
C6_Witness ==
    Processed /\ LastStatus = << >> /\ gate0[Self] /\ ~freeze_mode[Self]

\* C8: on an event of its own object, peers_handler issues exactly one
\* directory write if a record is dead and auto-pruning is enabled, with a
\* tombstone at exactly the dead ids, before the gate decision is taken;
\* and no directory write otherwise.
C8_PruneWrite ==
    Matching =>
        IF autoclean[Self] /\ DeadIds # {}
        THEN /\ Calls("patch") = {1}
             /\ trace[Self][1].status = [id \in DeadIds |-> Null]
             /\ wres[Self] # "none"
             /\ wres[Self] = "pending" =>
                    (Len(trace[Self]) = 1 /\ freeze_mode[Self] = gate0[Self])
        ELSE Calls("patch") = {} /\ wres[Self] = "none"

\* One dead record was pruned from a snapshot that holds alive records too,
\* and the gate was switched after the write.
C8_Witness ==
    /\ Matching /\ autoclean[Self] /\ DeadIds = {"B"}
    /\ DOMAIN LastStatus = PeerIds
    /\ wres[Self] = "ok" /\ GateCalls # {}

\* No write although a record is dead: auto-pruning is disabled.
C8_WitnessDisabled ==
    Processed /\ ~autoclean[Self] /\ DeadIds # {} /\ Calls("patch") = {}

\* C9: a failure of the pruning write is not caught: peers_handler ends with
\* the error, having done nothing after the write request.
C9_WriteFailurePropagates ==
    wres[Self] = "error" =>
        /\ outcome[Self] = "raised"
        /\ hpc[Self] = "idle"
        /\ Len(trace[Self]) = 1 /\ Calls("patch") = {1}
        /\ freeze_mode[Self] = gate0[Self]

\* The pruning write failed on a snapshot with an alive higher-priority
\* peer: the handler raised and the gate is still OFF.
C9_Witness ==
    /\ wres[Self] = "error" /\ outcome[Self] = "raised"
    /\ HigherAliveIds # {} /\ ~freeze_mode[Self]

\* ==================================================================
\* Properties of the heartbeat loop of operator A.
Log == klog[Self]
\* The record of Self as Peer.as_dict gives it, last seen at time t.
SelfRecord(t) ==
    [namespace |-> ourselves[Self].namespace, priority |-> ourselves[Self].priority,
     lastseen |-> [kind |-> "iso", wall |-> t, tz |-> NoneV],
     lifetime |-> ourselves[Self].lifetime]
\* max(1, lifetime - 10)
ExpectedSleep ==
    IF ourselves[Self].lifetime - 10 > 1 THEN ourselves[Self].lifetime - 10 ELSE 1

\* C10: every cycle of the heartbeat loop is touch(), then one write of the
\* record of Self, then a sleep of max(1, lifetime - 10) seconds, which is at
\* least one second; no sleep comes before the first renewal write, and the
\* next cycle starts when the sleep has ended.
C10_CycleOrder ==
    /\ kpc[Self] \in {"renew", "sleep"} =>
          /\ Len(Log) >= 2
          /\ Log[1].op = "touch" /\ Log[2].op = "write"
          /\ Log[1].at = Log[2].at
          /\ ourselves[Self].lastseen = Log[1].at
          /\ DOMAIN Log[2].status = {Self}
          /\ Log[2].status[Self] = SelfRecord(Log[1].at)
    /\ kpc[Self] = "renew" =>
          /\ Len(Log) = 2
          /\ kstat[Self].renewals = kstat[Self].naps + 1
          /\ kstat[Self].naps >= 1 => Log[1].at >= wake[Self]
    /\ kpc[Self] = "sleep" =>
          /\ Len(Log) = 3
          /\ Log[3].op = "sleep"
          /\ Log[3].at >= Log[2].at
          /\ Log[3].secs = ExpectedSleep
          /\ Log[3].secs >= 1
          /\ wake[Self] = Log[3].at + Log[3].secs
          /\ kstat[Self].renewals = kstat[Self].naps
    /\ kpc[Self] = "start" => kstat[Self].renewals = 0 /\ kstat[Self].naps = 0
    /\ kstat[Self].naps <= kstat[Self].renewals

\* The loop sleeps for the second time, two seconds for a lifetime of 12.
C10_Witness ==
    /\ kpc[Self] = "sleep" /\ kstat[Self].naps = 2
    /\ ourselves[Self].lifetime = 12 /\ Log[3].secs = 2

\* The loop sleeps one second for a lifetime of 1.
C10_WitnessFloor ==
    /\ kpc[Self] = "sleep" /\ ourselves[Self].lifetime = 1
    /\ wake[Self] = Log[3].at + 1

\* The loop has been neither cancelled nor left by an error.
Uninterrupted == kpc[Self] \in {"start", "renew", "sleep"}
\* The record of Self in the directory is alive at time t.
EntryAlive(t) == t < dir[Self].lastseen.wall + dir[Self].lifetime

\* C11: for every configured lifetime, in an uninterrupted heartbeat loop the
\* record Self wrote last is still alive (now < lastseen + lifetime) when the
\* next renewal is written, and the entry of Self in the directory never
\* expires between two renewals.
C11_RenewedBeforeDeadline ==
    (Uninterrupted /\ Self \in DOMAIN dir) =>
        /\ EntryAlive(now)
        /\ (kpc[Self] = "renew" /\ kstat[Self].renewals >= 2) =>
               EntryAlive(Log[2].at)

\* The loop was cancelled while it slept: the third step of its last cycle
\* is the sleep.
CancelledAsleep ==
    kend[Self] = "cancelled" /\ Len(Log) >= 3 /\ Log[3].op = "sleep"
\* After the sleep the log holds touch(lifetime=0) and one write for Self,
\* and nothing else.
DeregisteredOnce ==
    /\ Len(Log) = 5
    /\ Log[4].op = "touch" /\ Log[5].op = "write" /\ Log[4].at = Log[5].at
    /\ DOMAIN Log[5].status = {Self}
    /\ ourselves[Self].lifetime = 0 /\ ourselves[Self].lastseen = Log[4].at
    /\ kstat[Self].deregs = 1

\* C12: when the heartbeat loop is cancelled while it sleeps, it issues
\* exactly one deregistration write (touch(lifetime=0), then one push of the
\* record of Self), no renewal write follows, and the loop ends.
C12_CancelledAsleep ==
    /\ [](CancelledAsleep => DeregisteredOnce)
    /\ [][CancelledAsleep =>
             /\ kstat'[Self].renewals = kstat[Self].renewals
             /\ klog'[Self] = klog[Self]]_vars
    /\ (CancelledAsleep ~> kpc[Self] = "done")

\* The loop, cancelled in its second sleep, has ended after its cleanup
\* write returned.
C12_Witness ==
    /\ CancelledAsleep /\ kstat[Self].naps = 2
    /\ kpc[Self] = "done" /\ dpc[Self] = "ok" /\ kstat[Self].cancels = 1

\* The cancellations delivered to the loop while it waited for its cleanup.
CancelsInCleanup ==
    kstat[Self].cancels - (IF kend[Self] = "cancelled" THEN 1 ELSE 0)

\* C13: the cancellation that triggers the cleanup does not abort it: once
\* the loop has been cancelled the deregistration write has been issued, and
\* the write in flight is never dropped; the loop stops waiting for a
\* pending cleanup only when a second cancellation is delivered meanwhile.
C13_Shielded ==
    /\ [](kend[Self] = "cancelled" =>
            /\ kstat[Self].deregs = 1
            /\ dpc[Self] \in {"writing", "ok", "error"}
            /\ Log[Len(Log)].op = "write"
            /\ DOMAIN Log[Len(Log)].status = {Self}
            /\ dpc[Self] = "writing" => sent[Self] = Log[Len(Log)].status)
    /\ []((kpc[Self] = "done" /\ dpc[Self] = "writing") => CancelsInCleanup >= 1)
    /\ []((kend[Self] = "cancelled" /\ kstat[Self].cancels = 1) =>
            /\ kpc[Self] \in {"cleanup", "done"}
            /\ kpc[Self] = "done" <=> dpc[Self] \in {"ok", "error"})
    /\ [][dpc[Self] = "writing" =>
             /\ dpc'[Self] \in {"writing", "ok", "error"}
             /\ dpc'[Self] = "writing" => sent'[Self] = sent[Self]]_vars

\* Cancelled once while it slept, the loop has waited for its cleanup write.
C13_WitnessOnce ==
    /\ kend[Self] = "cancelled" /\ kstat[Self].cancels = 1
    /\ kpc[Self] = "done" /\ dpc[Self] = "ok" /\ Self \notin DOMAIN dir
    /\ kstat[Self].naps >= 1

\* Cancelled a second time, the loop has ended before its cleanup write,
\* which is still in flight.
C13_Witness ==
    /\ kend[Self] = "cancelled" /\ kstat[Self].cancels = 2
    /\ kpc[Self] = "done" /\ dpc[Self] = "writing"
    /\ sent[Self] = (Self :> Null)

\* C14: a failure of the deregistration write of the shutdown cleanup is
\* logged and never raised: the exception the loop ends with is the one that
\* left the loop (the cancellation or the error of the renewal), fixed before
\* the cleanup write returns or fails, and the same in both cases.
C14_CleanupFailureLogged ==
    /\ [][(kpc[Self] \in {"renew", "sleep"} /\ kpc'[Self] = "cleanup") =>
             kend'[Self] = (IF kstat'[Self].cancels > kstat[Self].cancels
                            THEN "cancelled" ELSE "error")]_vars
    /\ [][kpc[Self] \in {"cleanup", "done"} => kend'[Self] = kend[Self]]_vars
    /\ [](kpc[Self] = "done" => kend[Self] \in {"cancelled", "error"})
    /\ [][(dpc[Self] = "writing" /\ dpc'[Self] = "error") =>
             /\ kstat'[Self].logged =
                    kstat[Self].logged + (IF kpc[Self] = "cleanup" THEN 1 ELSE 0)
             /\ kpc'[Self] = "done"]_vars
    /\ [](kstat[Self].logged = 1 => dpc[Self] = "error")
    /\ [](kstat[Self].logged \in {0, 1})

\* The loop was cancelled, its cleanup write failed: the failure is logged,
\* the loop has ended with the cancellation, the entry of Self is left.
C14_Witness ==
    /\ kend[Self] = "cancelled" /\ kpc[Self] = "done"
    /\ dpc[Self] = "error" /\ kstat[Self].logged = 1
    /\ Self \in DOMAIN dir

\* The renewal write failed, and the cleanup write after it: the loop has
\* ended with the error of the renewal.
C14_WitnessError ==
    /\ kend[Self] = "error" /\ kpc[Self] = "done"
    /\ dpc[Self] = "error" /\ kstat[Self].logged = 1 /\ kstat[Self].cancels = 0

\* C15: whenever a lease record is read, its is_dead is
\* (now >= lastseen + lifetime) as of that moment, not a stored value: a
\* record constructed or touched while alive reads as dead once the clock
\* has reached its deadline, without any further touch.
C15_IsDeadAtReadTime ==
    \A i \in Ops :
        ourselves[i].is_dead =
            (now >= ourselves[i].lastseen + ourselves[i].lifetime)

\* C16: touch(lifetime=0) makes is_dead true at the instant it runs, so the
\* write of disappear() that follows it carries a tombstone at the id of
\* Self, not a serialized record.
C16_TouchZeroTombstone ==
    dpc[Self] # "none" =>
        /\ ourselves[Self].is_dead
        /\ ourselves[Self].lifetime = 0
        /\ ourselves[Self].deadline = ourselves[Self].lastseen
        /\ Log[Len(Log) - 1].op = "touch"
        /\ ourselves[Self].lastseen = Log[Len(Log) - 1].at
        /\ Log[Len(Log)].op = "write"
        /\ Log[Len(Log)].at = Log[Len(Log) - 1].at
        /\ Log[Len(Log)].status = (Self :> Null)
        /\ dpc[Self] = "writing" => sent[Self] = (Self :> Null)
        /\ dpc[Self] = "ok" => Self \notin DOMAIN dir

\* The tombstone of Self is in flight, the directory still holds the record
\* of the last renewal, of a lifetime of 13 seconds.
C16_Witness ==
    /\ dpc[Self] = "writing" /\ sent[Self] = (Self :> Null)
    /\ Self \in DOMAIN dir /\ dir[Self].lifetime = 13
    /\ now > dir[Self].lastseen.wall

\* Operator A issues a write of its own record in this step: a renewal, or
\* the deregistration.
RenewalIssued == kstat'[Self].renewals = kstat[Self].renewals + 1
DeregIssued == kstat'[Self].deregs = kstat[Self].deregs + 1

\* C23 as stated: over the writes an operator makes of its own record, the
\* renewals and the final deregistration, the deadline lastseen + lifetime of
\* the record written never decreases.
C23_DeadlinesMonotonic ==
    [][(kstat[Self].renewals >= 1 /\ (RenewalIssued \/ DeregIssued)) =>
          ourselves'[Self].lastseen + ourselves'[Self].lifetime
              >= ourselves[Self].lastseen + ourselves[Self].lifetime]_vars

\* C23, amended: over the renewals of an operator the deadline of the record
\* written never decreases (it is the time of the touch plus the lifetime);
\* the final deregistration writes a tombstone for a record whose deadline is
\* the time of the deregistration, which is below the deadline of the last
\* renewal whenever it comes before that deadline.
C23_RenewalDeadlinesMonotonic ==
    /\ [][(kstat[Self].renewals >= 1 /\ RenewalIssued) =>
             /\ ourselves'[Self].deadline >= ourselves[Self].deadline
             /\ ourselves'[Self].deadline = now + ourselves[Self].lifetime
             /\ sent'[Self][Self].lastseen.wall + sent'[Self][Self].lifetime
                  = ourselves'[Self].deadline]_vars
    /\ [][DeregIssued =>
             /\ ourselves'[Self].deadline = now
             /\ ourselves'[Self].deadline < ourselves[Self].deadline
                    <=> now < ourselves[Self].deadline
             /\ sent'[Self] = (Self :> Null)]_vars

\* The second renewal of a lifetime of 12 is in flight, with a later
\* deadline than the record in the directory.
C23_Witness ==
    /\ kpc[Self] = "renew" /\ kstat[Self].renewals = 2
    /\ ourselves[Self].lifetime = 12
    /\ Self \in DOMAIN dir
    /\ ourselves[Self].deadline > dir[Self].lastseen.wall + dir[Self].lifetime

\* The step takes the loop out of its renewal write, and is neither the return
\* of the write (which is followed by the sleep) nor a cancellation: the
\* write has failed.
RenewalFails ==
    /\ kpc[Self] = "renew" /\ kpc'[Self] # "renew"
    /\ kstat'[Self].naps = kstat[Self].naps
    /\ kstat'[Self].cancels = kstat[Self].cancels

\* C33: a renewal write that fails is not retried: the loop goes to its
\* cleanup with the error, starts one deregistration write, never renews
\* again, and ends, with that error.
C33_RenewalFailureEndsLoop ==
    /\ [][RenewalFails =>
            /\ kend'[Self] = "error"
            /\ kpc'[Self] = "cleanup" /\ dpc'[Self] = "writing"
            /\ kstat'[Self].deregs = kstat[Self].deregs + 1]_vars
    /\ [](kend[Self] = "error" =>
            /\ kpc[Self] \in {"cleanup", "done"}
            /\ kstat[Self].deregs = 1)
    /\ [][kend[Self] = "error" =>
            /\ kend'[Self] = "error"
            /\ kstat'[Self].renewals = kstat[Self].renewals
            /\ kstat'[Self].deregs = kstat[Self].deregs]_vars
    /\ (kend[Self] = "error") ~> (kpc[Self] = "done" /\ kend[Self] = "error")

\* The second renewal write failed after the loop had slept once; the
\* deregistration write has returned and the loop has ended with the error.
C33_Witness ==
    /\ kend[Self] = "error" /\ kpc[Self] = "done"
    /\ kstat[Self].renewals = 2 /\ kstat[Self].naps = 1
    /\ kstat[Self].deregs = 1 /\ dpc[Self] = "ok"

\* A renewal write failed and the deregistration write failed too: the loop
\* has logged that and ended with the error of the renewal.
C33_WitnessBoth ==
    /\ kend[Self] = "error" /\ kpc[Self] = "done"
    /\ kstat[Self].deregs = 1 /\ dpc[Self] = "error"
    /\ kstat[Self].logged = 1

\* ==================================================================
\* Properties of apply_peers.
Given == peers[Self]
Patch == sent[Self]

\* C7: the update apply_peers issues for a set of lease records has a status
\* map whose keys are exactly the ids of the records, with a tombstone at
\* exactly the ids of the dead records and the serialized record at exactly
\* the ids of the alive ones.
C7_PatchShape ==
    wres[Self] # "none" =>
        /\ DOMAIN Patch = {Given[k].id : k \in DOMAIN Given}
        /\ \A id \in DOMAIN Patch :
              /\ Given[id].deadline <= now <=> Patch[id] = Null
              /\ Given[id].deadline > now <=>
                    Patch[id] = [namespace |-> Given[id].namespace,
                                 priority |-> Given[id].priority,
                                 lastseen |-> [kind |-> "iso",
                                               wall |-> Given[id].lastseen,
                                               tz |-> NoneV],
                                 lifetime |-> Given[id].lifetime]

\* An update was written for three records, dead ones and alive ones.
C7_Witness ==
    /\ wres[Self] = "ok"
    /\ DOMAIN Patch = PeerIds
    /\ \E id \in PeerIds : Patch[id] = Null
    /\ \E id \in PeerIds : Patch[id] # Null

\* ==================================================================
\* Properties of Peer.detect.
Args == det.args
Probes == det.probes
\* The resource of the modern flavor for the namespace configured.
ModernResource ==
    IF Args.namespace = NoneV THEN "clusterkopfpeerings" ELSE "kopfpeerings"
\* The object of the modern / of the legacy flavor with name n is there.
ModernExists(n) == <<ModernResource, Args.namespace, n>> \in cluster.objs
LegacyExists(n) ==
    cluster.scope = "cluster" /\ <<"kopfpeerings", NoneV, n>> \in cluster.objs
IsModernProbe(pr, n) ==
    /\ pr.call = "read_obj" /\ pr.resource = ModernResource
    /\ pr.namespace = Args.namespace /\ pr.name = n
    /\ pr.found = ModernExists(n)
\* The probes of the legacy flavor: the CRD, then, if cluster-scoped, the
\* object.
IsLegacyProbes(prs, n) ==
    /\ Len(prs) \in {1, 2}
    /\ prs[1].call = "read_crd" /\ prs[1].resource = "kopfpeerings"
    /\ Len(prs) = 2 <=> cluster.scope = "cluster"
    /\ Len(prs) = 2 =>
          /\ prs[2].call = "read_obj" /\ prs[2].resource = "kopfpeerings"
          /\ prs[2].namespace = NoneV /\ prs[2].name = n
          /\ prs[2].found = LegacyExists(n)
\* Peer.detect has returned a lease on the peering n of the flavor given.
ReturnedLease(n, legacy) ==
    /\ det.result = "lease" /\ det.warned = 0
    /\ det.lease.id = Self /\ det.lease.name = n
    /\ det.lease.namespace = Args.namespace /\ det.lease.legacy = legacy
\* The modern flavor is probed first, the legacy flavor only if the modern
\* object is absent, and a lease of the flavor found first is returned.
ModernThenLegacy(n) ==
    /\ Len(Probes) >= 1 /\ IsModernProbe(Probes[1], n)
    /\ Len(Probes) > 1 <=> ~ModernExists(n)
    /\ Len(Probes) > 1 => IsLegacyProbes(SubSeq(Probes, 2, Len(Probes)), n)
    /\ ModernExists(n) => ReturnedLease(n, FALSE)
    /\ (~ModernExists(n) /\ LegacyExists(n)) => ReturnedLease(n, TRUE)

\* C17: in standalone mode Peer.detect returns no lease and reads no object
\* and no CRD, whatever name and namespace it is given.
C17_StandaloneNoProbe ==
    (det.pc # "off" /\ Args.standalone) =>
        /\ Probes = << >>
        /\ det.lease = NoLease /\ det.warned = 0
        /\ det.pc \in {"start", "done"}
        /\ det.pc = "done" => det.result = "no_lease"

\* Standalone, with the name and the namespace of a peering that exists.
C17_Witness ==
    /\ Args.standalone /\ det.pc = "done" /\ det.result = "no_lease"
    /\ Args.name = "mine" /\ Args.namespace = "ns1"
    /\ <<"kopfpeerings", "ns1", "mine">> \in cluster.objs

\* C18: with an explicit name, standalone off, Peer.detect probes the modern
\* object of that name first and the legacy flavor only if the modern object
\* is absent; it returns a modern lease if the modern object exists, a legacy
\* lease if only the legacy one exists, and raises an error, creating no
\* lease, if neither exists.
C18_ExplicitName ==
    (det.pc = "done" /\ ~Args.standalone /\ Args.name \notin {NoneV, ""}) =>
        /\ ModernThenLegacy(Args.name)
        /\ (~ModernExists(Args.name) /\ ~LegacyExists(Args.name)) =>
              /\ det.result = "raised"
              /\ det.lease = NoLease /\ det.warned = 0

\* The name "mine" is in neither flavor (the legacy CRD is there, with
\* another object): Peer.detect has raised.
C18_Witness ==
    /\ det.pc = "done" /\ ~Args.standalone /\ Args.name = "mine"
    /\ det.result = "raised" /\ Len(Probes) = 3
    /\ LegacyExists(PEERING_DEFAULT_NAME)

\* Only the legacy object "mine" exists: a legacy lease is returned.
C18_WitnessLegacy ==
    /\ det.pc = "done" /\ ~Args.standalone /\ Args.name = "mine"
    /\ Args.namespace = "ns1"
    /\ det.result = "lease" /\ det.lease.legacy /\ det.lease.name = "mine"

\* C19: with no explicit name, standalone off, Peer.detect probes the
\* default-named modern object, then the default-named legacy object; if
\* neither exists it logs a warning and returns no lease, raising no error.
C19_DefaultName ==
    (det.pc = "done" /\ ~Args.standalone /\ Args.name \in {NoneV, ""}) =>
        /\ ModernThenLegacy("default")
        /\ (~ModernExists("default") /\ ~LegacyExists("default")) =>
              /\ det.result = "no_lease"
              /\ det.lease = NoLease /\ det.warned = 1

\* No name given, no default peering of either flavor, though a peering
\* "mine" is there: the warning is logged, no lease is returned.
C19_Witness ==
    /\ det.pc = "done" /\ ~Args.standalone /\ Args.name = NoneV
    /\ det.result = "no_lease" /\ det.warned = 1
    /\ ModernExists("mine")

\* No name given, the default legacy peering is found.
C19_WitnessLegacy ==
    /\ det.pc = "done" /\ ~Args.standalone /\ Args.name = NoneV
    /\ det.result = "lease" /\ det.lease.legacy
    /\ det.lease.name = "default" /\ Len(Probes) = 3

\* ==================================================================
\* Properties of the reconcilers of two operators.
\* Operator i has processed an event of the peering object to the end.
ProcessedBy(i) ==
    /\ outcome[i] = "returned"
    /\ event[i].name = "default" /\ event[i].namespace = NoneV
\* The ids of the snapshot operator i processed that were alive when it
\* parsed it and have the priority p.
AliveWith(i, p) ==
    {id \in DOMAIN event[i].status :
        /\ RecordAlive(event[i].status[id], parsed_at[i])
        /\ event[i].status[id].priority = p}
\* The gate the decision of operator i leads to: ON iff an alive peer has a
\* higher priority, or another alive peer has the same priority.
ExpectedGate(i) ==
    \/ \E p \in {1, 5, 10} : p > ourselves[i].priority /\ AliveWith(i, p) # {}
    \/ AliveWith(i, ourselves[i].priority) \ {i} # {}

\* C20 as stated: all operators that have processed the same snapshot have
\* the same gate state.
C20_SameSnapshotSameGate ==
    \A i, j \in Ops :
        (ProcessedBy(i) /\ ProcessedBy(j)
           /\ event[i].status = event[j].status) =>
            freeze_mode[i] = freeze_mode[j]

\* C20, amended: the gate state of an operator that has processed a snapshot
\* is one function of the snapshot, the time of processing and the id and
\* priority of the operator; operators of the same priority that processed the
\* same snapshot at the same time, both or neither of them alive in it with
\* that priority, have the same gate state.
C20_SameInputsSameGate ==
    /\ \A i \in Ops : ProcessedBy(i) => freeze_mode[i] = ExpectedGate(i)
    /\ \A i, j \in Ops :
        (/\ ProcessedBy(i) /\ ProcessedBy(j)
         /\ event[i].status = event[j].status
         /\ parsed_at[i] = parsed_at[j]
         /\ ourselves[i].priority = ourselves[j].priority
         /\ i \in AliveWith(i, ourselves[i].priority)
              <=> j \in AliveWith(j, ourselves[j].priority)) =>
            freeze_mode[i] = freeze_mode[j]

\* A and B, of the same priority and both alive in the snapshot, have
\* processed it one after the other within the same second: both gates are ON.
C20_Witness ==
    /\ ProcessedBy("A") /\ ProcessedBy("B")
    /\ ourselves["A"].priority = ourselves["B"].priority
    /\ DOMAIN event["A"].status = {"A", "B"}
    /\ event["A"].status = event["B"].status
    /\ parsed_at["A"] = parsed_at["B"]
    /\ AliveWith("A", 5) = {"A", "B"}
    /\ freeze_mode["A"] /\ freeze_mode["B"]

\* ==================================================================
\* Properties of the heartbeat loops of two operators.
\* The record of operator i as its last touch left it, serialized.
RecordOf(i) ==
    [namespace |-> ourselves[i].namespace, priority |-> ourselves[i].priority,
     lastseen |-> [kind |-> "iso", wall |-> ourselves[i].lastseen, tz |-> NoneV],
     lifetime |-> ourselves[i].lifetime]
\* The directories d and e agree on the key id.
SameAt(d, e, id) ==
    /\ id \in DOMAIN d <=> id \in DOMAIN e
    /\ id \in DOMAIN d => d[id] = e[id]

\* C21: under every interleaving of the renewals of operators with distinct
\* ids, a renewal write changes only the key of its writer, and once the
\* write of an operator has returned the directory holds the record of its
\* latest renewal.
C21_RenewalsDoNotCollide ==
    /\ [][\A i \in Ops : (kpc[i] = "renew" /\ kpc'[i] = "sleep") =>
             /\ \A id \in PeerIds \ {i} : SameAt(dir, dir', id)
             /\ i \in DOMAIN dir' /\ dir'[i] = RecordOf(i)]_vars
    /\ [][\A i \in Ops : kpc'[i] = kpc[i] => SameAt(dir, dir', i)]_vars
    /\ [](\A i \in Ops : kpc[i] = "sleep" =>
             i \in DOMAIN dir /\ dir[i] = RecordOf(i))

\* A and B have both renewed twice, B's second write was issued before A's
\* and returned after it: each key holds the latest record of its operator.
C21_Witness ==
    /\ kpc["A"] = "sleep" /\ kpc["B"] = "sleep"
    /\ kstat["A"].renewals = 2 /\ kstat["B"].renewals = 2
    /\ ourselves["B"].lastseen < ourselves["A"].lastseen
    /\ klog["A"][3].at < klog["B"][3].at
    /\ dir["A"] = RecordOf("A") /\ dir["B"] = RecordOf("B")

\* ==================================================================
\* Properties of a freeze.
\* Every peer of the directory other than Self with the priority of Self or
\* a higher one is dead.
NoAliveCompetitor ==
    \A id \in DOMAIN dir \ {Self} :
        dir[id].priority >= ourselves[Self].priority =>
            now >= dir[id].lastseen.wall + dir[id].lifetime

HigherAliveElsewhere ==
    {id \in DOMAIN LastStatus :
        /\ RecordAlive(LastStatus[id], parsed_at[Self])
        /\ LastStatus[id].priority > ourselves[Self].priority
        /\ \/ event[Self].namespace # ourselves[Self].namespace
           \/ LastStatus[id].namespace # ourselves[Self].namespace}

\* C25: a namespace-bound operator sees the cluster-wide operators and the
\* operators of the other namespaces: when an alive higher-priority operator
\* of cluster scope or of another namespace is registered, its gate is ON
\* after the notification.
C25_SeesOtherNamespaces ==
    (/\ ourselves[Self].namespace # NoneV
     /\ outcome[Self] = "returned"
     /\ HigherAliveElsewhere # {}) => freeze_mode[Self]

\* ==================================================================
\* Properties of the whole operator: who writes the Toggle.
\* The step is one of peers_handler of Self: the handler returns in it, the
\* last thing it did is a call of the Toggle, and neither the heartbeat loop,
\* nor the caller of apply_peers, nor Peer.detect has moved.
ReconcilerStep ==
    /\ hpc[Self] \in {"idle", "prune"}
    /\ hpc'[Self] = "idle"
    /\ outcome'[Self] = "returned"
    /\ trace'[Self] # << >>
    /\ trace'[Self][Len(trace'[Self])].op \in {"turn_on", "turn_off"}
    /\ UNCHANGED <<ourselves, kvars, dvars, now>>

\* C26: the Toggle starts OFF, and every step that changes it is a step of the
\* reconciler: no step of the heartbeat loop (renewal, sleep, cancellation,
\* disappear), of apply_peers or of Peer.detect changes it.
C26_GateOnlyByReconciler ==
    /\ freeze_mode = InitToggle
    /\ [][freeze_mode' # freeze_mode => ReconcilerStep]_vars

\* The Toggle is ON while the heartbeat loop was cancelled and has
\* deregistered, a write of apply_peers has returned and Peer.detect is done.
C26_Witness ==
    /\ freeze_mode[Self]
    /\ kend[Self] = "cancelled" /\ dpc[Self] = "ok"
    /\ kstat[Self].naps > 0
    /\ wres["B"] = "ok"
    /\ det.pc = "done" /\ Len(det.probes) > 0

\* ==================================================================
\* Properties of the lease record by itself.
\* Every Peer there is: the one of each operator, built by __init__ and
\* touched by its heartbeat loop, and those the reconciler has parsed.
AllPeers ==
    {ourselves[i] : i \in Ops}
      \cup UNION {{peers[i][id] : id \in DOMAIN peers[i]} : i \in Ops}

\* The step holds a touch() of the Peer of Self, without a lifetime.
TouchStep == kstat'[Self].renewals = kstat[Self].renewals + 1

\* C27: after __init__ and after every touch, with a lifetime or without,
\* deadline = lastseen + lifetime; a touch() without a lifetime leaves the
\* lifetime, the id, the name, the namespace and the priority as they are and
\* moves lastseen forward to now.
C27_DeadlineDerived ==
    /\ [](\A p \in AllPeers : p.deadline = p.lastseen + p.lifetime)
    /\ [][TouchStep =>
            /\ ourselves'[Self].lifetime = ourselves[Self].lifetime
            /\ ourselves'[Self].id = ourselves[Self].id
            /\ ourselves'[Self].name = ourselves[Self].name
            /\ ourselves'[Self].namespace = ourselves[Self].namespace
            /\ ourselves'[Self].priority = ourselves[Self].priority
            /\ ourselves'[Self].lastseen = now
            /\ ourselves'[Self].lastseen >= ourselves[Self].lastseen]_vars

\* The Peer of Self was built with a lifetime of 12 seconds, touched more than
\* once, the last time after the clock had moved, and then touched with the
\* lifetime 0; the reconciler has built a Peer from a record.
C27_Witness ==
    /\ kstat[Self].renewals >= 2
    /\ kstat[Self].deregs = 1
    /\ ourselves[Self].lifetime = 0
    /\ ourselves[Self].lastseen > 0
    /\ Self \in DOMAIN peers[Self]
    /\ peers[Self][Self].lifetime = 12

\* ==================================================================
\* Properties of the serialization of the lease record.
\* The reconciler of Self has parsed its peering object, which holds the
\* record of Self as Self, still alive, serializes it now.
ReadBack ==
    /\ outcome[Self] # "none"
    /\ Self \in DOMAIN peers[Self]
    /\ ~ourselves[Self].is_dead /\ now < ourselves[Self].deadline
    /\ event[Self].status[Self] = as_dict(ourselves[Self])

C30_FailedPruneNoDecision ==
    (Matching /\ hpc[Self] = "idle" /\ wres[Self] = "error")
       => /\ outcome[Self] = "raised"
          /\ freeze_mode[Self] = gate0[Self]
          /\ Calls("warning") = {} /\ Calls("info") = {}
          /\ GateCalls = {}

\* The pruning write failed on a snapshot with a dead peer and an alive peer
\* of the priority of Self: the Toggle was OFF and is OFF.
C30_Witness ==
    /\ Matching /\ hpc[Self] = "idle" /\ wres[Self] = "error"
    /\ DeadIds # {} /\ SameAliveIds # {} /\ HigherAliveIds = {}
    /\ ~gate0[Self] /\ ~freeze_mode[Self]

\* The pruning write failed on a snapshot with a dead peer and no alive
\* competitor while the Toggle was ON: it is still ON.
C30_WitnessOn ==
    /\ Matching /\ hpc[Self] = "idle" /\ wres[Self] = "error"
    /\ DeadIds # {} /\ SameAliveIds = {} /\ HigherAliveIds = {}
    /\ gate0[Self] /\ freeze_mode[Self]

\* ==================================================================
\* Properties of the reconciler on snapshots with tombstones.
\* The ids the last event maps to null.
Tombstones == {id \in DOMAIN LastStatus : LastStatus[id] = Null}

\* C29: a matching notification whose snapshot maps some id to null is
\* processed without an error of the handler itself (it ends with an error
\* only when its pruning write fails): the null record is taken for an absent
\* peer, the peers are those of the other records.
C29_TombstoneIsAbsent ==
    (/\ Matching
     /\ Tombstones # {}
     /\ hpc[Self] = "idle"
     /\ wres[Self] # "error")
       => /\ outcome[Self] = "returned"
          /\ DOMAIN peers[Self] = DOMAIN LastStatus \ Tombstones

\* ==================================================================
\* Properties of the order of the decision.
\* C34: the decision calls the Toggle at most once per event, and the peers
\* of a higher priority go before the ties: on a snapshot with an alive peer
\* of a higher priority and an alive peer of the own priority and another id
\* no warning is logged, and when the Toggle was ON already it is not called.
C34_HigherBeforeTies ==
    Processed =>
        /\ Cardinality(GateCalls) <= 1
        /\ (HigherAliveIds # {} /\ SameAliveIds # {}) =>
              /\ Calls("warning") = {}
              /\ Calls("turn_off") = {}
              /\ gate0[Self] => GateCalls = {}
              /\ freeze_mode[Self]

\* A snapshot with both kinds of peers was processed while the Toggle was ON.
C34_Witness ==
    /\ Processed
    /\ HigherAliveIds # {} /\ SameAliveIds # {}
    /\ gate0[Self] /\ freeze_mode[Self] /\ trace[Self] = << >>

\* A snapshot with both kinds of peers was processed while the Toggle was
\* OFF: it was turned ON, once.
C34_WitnessOff ==
    /\ Processed
    /\ HigherAliveIds # {} /\ SameAliveIds # {}
    /\ ~gate0[Self] /\ Cardinality(Calls("turn_on")) = 1

\* ==================================================================
\* Properties of a group of operators on one snapshot.
\* The snapshots that hold records of operators of the model only; the
\* operators registered in such a snapshot are the group.
GroupSnapshots ==
    {S \in {event[i].status : i \in Ops} :
        DOMAIN S # {} /\ DOMAIN S \subseteq Ops}
\* Operator i has processed S as its last event and without an error, and
\* its own record in S was alive when it did.
ProcessedAlive(i, S) ==
    /\ ProcessedBy(i) /\ event[i].status = S
    /\ RecordAlive(S[i], parsed_at[i])
\* Every record of S was alive when operator i processed it.
AllAliveFor(i, S) == \A id \in DOMAIN S : RecordAlive(S[id], parsed_at[i])
\* The operators of the group whose Toggle is OFF, and those of the highest
\* priority of the group.
GroupOff(S) == {i \in DOMAIN S : ~freeze_mode[i]}
GroupTop(S) ==
    {i \in DOMAIN S : \A j \in DOMAIN S : ourselves[j].priority <= ourselves[i].priority}
\* One operator is OFF, the only one of the highest priority, or none is when
\* that priority is shared.
OneOff(S) ==
    /\ Cardinality(GroupOff(S)) <= 1
    /\ GroupOff(S) = IF Cardinality(GroupTop(S)) = 1 THEN GroupTop(S) ELSE {}

\* C31 as stated: when every operator of a group has its own alive record in
\* a snapshot and has processed it as its last event, at most one of them is
\* OFF: the one of the highest priority, none when that priority is shared.
C31_AtMostOneOff ==
    \A S \in GroupSnapshots :
        (\A i \in DOMAIN S : ProcessedAlive(i, S)) => OneOff(S)

\* C31, amended: the same, when each operator of the group processed the
\* snapshot while every record of it was alive.
C31_AtMostOneOffAllAlive ==
    \A S \in GroupSnapshots :
        (\A i \in DOMAIN S : ProcessedAlive(i, S) /\ AllAliveFor(i, S))
            => OneOff(S)

\* A of priority 5 and B of priority 10 have processed the snapshot with both
\* their records, alive, at different times: A is ON, B is OFF.
C31_Witness ==
    \E S \in GroupSnapshots :
        /\ DOMAIN S = Ops
        /\ \A i \in Ops : ProcessedAlive(i, S) /\ AllAliveFor(i, S)
        /\ ourselves["B"].priority > ourselves["A"].priority
        /\ parsed_at["A"] # parsed_at["B"]
        /\ freeze_mode["A"] /\ ~freeze_mode["B"]

\* A and B of the same priority have processed the snapshot with both their
\* records, alive: both are ON.
C31_WitnessTie ==
    \E S \in GroupSnapshots :
        /\ DOMAIN S = Ops
        /\ \A i \in Ops : ProcessedAlive(i, S) /\ AllAliveFor(i, S)
        /\ ourselves["B"].priority = ourselves["A"].priority
        /\ freeze_mode["A"] /\ freeze_mode["B"]

\* ==================================================================
\* Properties of the pruning write next to the renewals of a peer.
\* The step applies the pruning write of Self to the directory.
PruneApplied == hpc[Self] = "prune" /\ wres'[Self] = "ok"

\* C32: a pruning write removes no entry that is alive when the write is
\* applied: the record a renewal of B has put into the directory since Self
\* took its snapshot is still there after the tombstone of Self for B.
C32_PruneKeepsAlive ==
    [][(autoclean[Self] /\ PruneApplied) =>
          \A id \in DOMAIN dir :
              RecordAlive(dir[id], now) => id \in DOMAIN dir']_vars
====
